---- MODULE Spec2Model ----
(***************************************************************************)
(* Sticker downloader bot: the retry executor, the size-bounded splitter,  *)
(* the per-chat session (context.user_data) and the two download jobs.     *)
(*                                                                         *)
(* Eight specifications share the variables below:                         *)
(*   SpecRetry  retry_async alone, for every retries/delay in the bounds;  *)
(*   SpecSplit  split_files_into_directories alone, for every listing of   *)
(*              file sizes and every ceiling in the bounds;                *)
(*   Spec        one chat, its handlers run one after another, up to       *)
(*               MaxJobs downloads of a sticker or of a set of one sticker;*)
(*   SpecJob     one chat, one download, sets of up to MaxItems stickers;  *)
(*   SpecOverlap one chat, one download (png or gif), the other handlers   *)
(*               running while the download awaits;                        *)
(*   SpecOther   one chat, one download, handle_callback also called with  *)
(*               callback data that names none of the five formats;        *)
(*   SpecPeers   one chat, one download, and the download of another chat  *)
(*               that allocates under the same OUTPUT_DIR;                 *)
(*   SpecLive    one chat, one download (png or gif), sets of up to        *)
(*               MaxItems stickers, the job's steps weakly fair.           *)
(***************************************************************************)
EXTENDS Integers, Sequences, FiniteSets, TLC

VARIABLES
    rt,         \* the running retry_async call: its locals and what it did
    sp,         \* the running split_files_into_directories call
    user_data,  \* context.user_data of the chat (a dict)
    job,        \* the handle_download call in flight: its locals and position
    fs,         \* the directories under OUTPUT_DIR and what they hold
    reply,      \* what the last start/stop/sticker/scope handler sent
    conv,       \* history: how far the conversation got since the last reset or job
    last,       \* history: the last event handled and the session it met
    njobs,      \* history: how many jobs were started
    env,        \* the inputs a specification admits (never changes)
    peer        \* another chat's handle_download, as far as OUTPUT_DIR goes

vars == <<rt, sp, user_data, job, fs, reply, conv, last, njobs, env, peer>>

\* What belongs to the chat and its job.
chatVars == <<user_data, job, fs, reply, conv, last, njobs, env, peer>>

\* Python's None, and a dict's missing key as .get() returns it.
None == "None"

(***************************************************************************)
(* Bounds                                                                  *)
(***************************************************************************)
MaxRetries == 5
MaxDelay == 2
MaxFiles == 3       \* entries of the split's source directory
MaxSize == 4        \* the largest file size
MaxCeiling == 3     \* the largest max_size_mb

\* The values an operation may return.
Values == {"v1", "v2"}

(***************************************************************************)
(* retry_async                                                             *)
(***************************************************************************)
RECURSIVE Pow2(_)
Pow2(n) == IF n = 0 THEN 1 ELSE 2 * Pow2(n - 1)

\* The wait after the failure of (zero-based) attempt: delay * 2 ** attempt.
BackoffMut1(delay, attempt) == delay * (attempt + 1)
Backoff(delay, attempt) == delay * Pow2(attempt)

\* if attempt < retries - 1: sleep, else: raise.
MayRetryMut1(attempt, retries) == attempt < retries
MayRetryMut2(attempt, retries) == TRUE
MayRetry(attempt, retries) == attempt < retries - 1

\* The call as it starts: range(retries) is empty for retries = 0 and the
\* function then falls off its end, returning None without a call.
RetryStart(retries, delay) ==
    [retries |-> retries, delay |-> delay, attempt |-> 0,
     status  |-> IF retries > 0 THEN "calling" ELSE "returned",
     result  |-> None,
     opvalue |-> None,     \* history: what func returned when it succeeded
     calls   |-> 0,        \* history: how often func was invoked
     fails   |-> 0,        \* history: how often it raised
     logs    |-> <<>>,     \* the attempt numbers logger.error reported
     waits   |-> <<>>,     \* the delays handed to asyncio.sleep
     trace   |-> <<>>]     \* what happened, in order

\* No retry_async call is running.
RetryIdle == [RetryStart(0, 0) EXCEPT !.status = "idle"]

\* func returned v: retry_async returns it at once.
RetryReturnedMut1(r, v) ==
    [r EXCEPT !.calls = @ + 1, !.attempt = @ + 1,
              !.status = IF r.attempt + 1 < r.retries THEN "calling" ELSE "returned",
              !.result = v, !.opvalue = v,
              !.trace = Append(@, "call")]
RetryReturned(r, v) ==
    [r EXCEPT !.calls = @ + 1, !.status = "returned", !.result = v, !.opvalue = v,
              !.trace = Append(Append(@, "call"), "return")]

\* func raised: the failure is logged, then either the sleep starts or the
\* exception is re-raised.
RetryRaised(r) ==
    LET logged == [r EXCEPT !.calls = @ + 1, !.fails = @ + 1,
                            !.logs = Append(@, r.attempt + 1),
                            !.trace = Append(Append(@, "call"), "log")]
    IN  IF MayRetry(r.attempt, r.retries)
        THEN [logged EXCEPT !.status = "sleeping",
                            !.waits = Append(@, Backoff(r.delay, r.attempt)),
                            !.trace = Append(@, "sleep")]
        ELSE [logged EXCEPT !.status = "raised",
                            !.trace = Append(@, "raise")]

\* asyncio.sleep is over: the for loop goes to the next attempt.
RetryWoke(r) ==
    IF r.attempt + 1 < r.retries
    THEN [r EXCEPT !.attempt = @ + 1, !.status = "calling"]
    ELSE [r EXCEPT !.attempt = @ + 1, !.status = "returned"]

RetryInit ==
    /\ rt \in {RetryStart(n, d) : n \in 0..MaxRetries, d \in 1..MaxDelay}
    /\ sp = None
    /\ user_data = None
    /\ job = None
    /\ fs = None
    /\ reply = None
    /\ conv = None
    /\ last = None
    /\ njobs = 0
    /\ env = None
    /\ peer = None

OpReturns ==
    /\ rt.status = "calling"
    /\ \E v \in Values : rt' = RetryReturned(rt, v)
    /\ UNCHANGED <<sp, chatVars>>

OpRaises ==
    /\ rt.status = "calling"
    /\ rt' = RetryRaised(rt)
    /\ UNCHANGED <<sp, chatVars>>

SleepEnds ==
    /\ rt.status = "sleeping"
    /\ rt' = RetryWoke(rt)
    /\ UNCHANGED <<sp, chatVars>>

RetryNext == OpReturns \/ OpRaises \/ SleepEnds

SpecRetry == RetryInit /\ [][RetryNext]_vars

(***************************************************************************)
(* Claims about retry_async (checked under SpecRetry)                      *)
(***************************************************************************)
CountOf(seq, x) == Cardinality({i \in DOMAIN seq : seq[i] = x})

\* C1: for retries >= 1, once the operation has succeeded after k < retries
\* failures, retry_async has returned the operation's value and the operation
\* was invoked exactly k + 1 times: the success is the last thing that
\* happened and no call follows it.
C1_ReturnsFirstSuccess ==
    (rt.retries >= 1 /\ rt.opvalue # None) =>
        /\ rt.status = "returned"
        /\ rt.result = rt.opvalue
        /\ rt.fails < rt.retries
        /\ rt.calls = rt.fails + 1
        /\ CountOf(rt.trace, "call") = rt.fails + 1
        /\ rt.trace[Len(rt.trace)] = "return"
        /\ rt.trace[Len(rt.trace) - 1] = "call"

\* C1 witness: two failures, then a success on the third of four attempts.
C1_Witness ==
    /\ rt.retries = 4 /\ rt.fails = 2 /\ rt.opvalue = "v2"
    /\ rt.status = "returned" /\ rt.calls = 3

\* C2: while the operation has only failed, the j-th failure is a call, then
\* a log entry with attempt number j, then, for j < retries, a wait of
\* delay * 2^(j-1) (each wait twice the one before, so strictly longer), and
\* for j = retries the re-raise: the error is propagated after exactly
\* retries calls, never after a wait, and nothing follows it.
C2_AlwaysFailing ==
    (rt.retries >= 1 /\ rt.opvalue = None) =>
        /\ rt.calls = rt.fails
        /\ rt.fails <= rt.retries
        /\ rt.logs = [j \in 1..rt.fails |-> j]
        /\ Len(rt.trace) = 3 * rt.fails
        /\ \A j \in 1..rt.fails :
              /\ rt.trace[3 * j - 2] = "call"
              /\ rt.trace[3 * j - 1] = "log"
              /\ rt.trace[3 * j] = IF j < rt.retries THEN "sleep" ELSE "raise"
        /\ Len(rt.waits) = IF rt.fails < rt.retries THEN rt.fails ELSE rt.retries - 1
        /\ \A i \in DOMAIN rt.waits : rt.waits[i] = rt.delay * Pow2(i - 1)
        /\ \A i \in DOMAIN rt.waits :
              i > 1 => rt.waits[i] = 2 * rt.waits[i - 1] /\ rt.waits[i] > rt.waits[i - 1]
        /\ (rt.status = "raised") <=> (rt.fails = rt.retries)
        /\ rt.status \in {"calling", "sleeping", "raised"}
        /\ rt.status = "raised" => rt.calls = rt.retries /\ rt.result = None

\* C2 witness: four attempts, all failed, the error propagated after waits
\* of 2, 4 and 8.
C2_Witness ==
    /\ rt.retries = 4 /\ rt.delay = 2 /\ rt.status = "raised"
    /\ rt.calls = 4 /\ rt.waits = <<2, 4, 8>>

(***************************************************************************)
(* split_files_into_directories                                            *)
(*                                                                         *)
(* A size is os.path.getsize / 2^20: a division by a power of two, exact   *)
(* in binary floating point, and sums of such values stay exact far beyond *)
(* any directory's size, so sizes and max_size_mb are integers of one unit *)
(* here.  A directory entry is [size, isfile]; its name is its position in *)
(* the os.listdir order.                                                   *)
(***************************************************************************)
Entries ==
    {[size |-> n, isfile |-> TRUE] : n \in 0..MaxSize}
        \cup {[size |-> 0, isfile |-> FALSE]}

Listings == UNION {[1..n -> Entries] : n \in 0..MaxFiles}

\* Line 123: the entries from the i-th on that os.path.isfile accepts, in
\* listing order.
RECURSIVE RegularFiles(_, _)
RegularFiles(listing, i) ==
    IF i > Len(listing) THEN <<>>
    ELSE (IF listing[i].isfile THEN <<i>> ELSE <<>>) \o RegularFiles(listing, i + 1)

\* if current_size + file_size > max_size_mb: open the next directory.
NeedNewDirMut1(current_size, file_size, max_size) == file_size > max_size
NeedNewDirMut2(current_size, file_size, max_size) == current_size + file_size >= max_size
NeedNewDirMut3(current_size, file_size, max_size) == current_size + file_size > 2 * max_size
NeedNewDir(current_size, file_size, max_size) == current_size + file_size > max_size

\* The call before its first statement.
SplitCall(listing, max_size) ==
    [status |-> "called", listing |-> listing, max_size |-> max_size,
     src |-> DOMAIN listing,       \* the entries src_dir holds
     file_paths |-> <<>>, pos |-> 1, dir_count |-> 0, current_size |-> 0,
     bins |-> <<>>]                \* bins[k + 1] is dest_dir/dir_k, in move order

\* Lines 120-127: dest_dir and dir_0 exist, the regular files are listed.
SplitStart(s) ==
    [s EXCEPT !.status = "moving",
              !.file_paths = RegularFiles(s.listing, 1),
              !.bins = << <<>> >>]

SplitDone(s) == s.status = "moving" /\ s.pos > Len(s.file_paths)

\* One pass of the for loop, lines 129-138.
SplitMoveMut1(s) ==
    LET f == s.file_paths[s.pos]
        size == s.listing[f].size
        open == NeedNewDir(s.current_size, size, s.max_size)
        dc == IF open THEN s.dir_count + 1 ELSE s.dir_count
        b == IF open THEN Append(s.bins, <<>>) ELSE s.bins
    IN  [s EXCEPT !.dir_count = dc,
                  !.bins = [b EXCEPT ![dc + 1] = Append(@, f)],
                  !.current_size = (IF open THEN 0 ELSE @) + size,
                  !.pos = @ + 1]
SplitMove(s) ==
    LET f == s.file_paths[s.pos]
        size == s.listing[f].size
        open == NeedNewDir(s.current_size, size, s.max_size)
        dc == IF open THEN s.dir_count + 1 ELSE s.dir_count
        b == IF open THEN Append(s.bins, <<>>) ELSE s.bins
    IN  [s EXCEPT !.dir_count = dc,
                  !.bins = [b EXCEPT ![dc + 1] = Append(@, f)],
                  !.current_size = (IF open THEN 0 ELSE @) + size,
                  !.src = @ \ {f},
                  !.pos = @ + 1]

\* The whole call: the loop body is applied until the loop is over (the
\* state after each pass is fixed before the next pass reads it).
RECURSIVE SplitLoop(_)
SplitLoop(s) ==
    IF SplitDone(s) THEN s
    ELSE CHOOSE r \in {SplitLoop(n) : n \in {SplitMove(s)}} : TRUE

SplitRun(listing, max_size) == SplitLoop(SplitStart(SplitCall(listing, max_size)))

SplitInit ==
    /\ sp \in {SplitCall(l, c) : l \in Listings, c \in 0..MaxCeiling}
    /\ rt = None
    /\ user_data = None
    /\ job = None
    /\ fs = None
    /\ reply = None
    /\ conv = None
    /\ last = None
    /\ njobs = 0
    /\ env = None
    /\ peer = None

SplitBegin ==
    /\ sp.status = "called"
    /\ sp' = SplitStart(sp)
    /\ UNCHANGED <<rt, chatVars>>

SplitMoveFile ==
    /\ sp.status = "moving"
    /\ ~SplitDone(sp)
    /\ sp' = SplitMove(sp)
    /\ UNCHANGED <<rt, chatVars>>

SplitNext == SplitBegin \/ SplitMoveFile

SpecSplit == SplitInit /\ [][SplitNext]_vars

(***************************************************************************)
(* Claims about the splitter (checked under SpecSplit)                     *)
(***************************************************************************)
RECURSIVE SumSizes(_, _)
SumSizes(files, listing) ==
    IF files = <<>> THEN 0
    ELSE listing[Head(files)].size + SumSizes(Tail(files), listing)

\* Where file f lies in the bins: the pairs <<bin, position>>.
PlacesOf(bins, f, n) ==
    {p \in (DOMAIN bins) \X (1..n) : p[2] \in DOMAIN bins[p[1]] /\ bins[p[1]][p[2]] = f}

\* C3: after the split every bin's total size is at most the ceiling, or the
\* bin holds exactly one file and that file is larger than the ceiling; a
\* file larger than the ceiling shares its bin with no other file.
C3_BinsWithinCeiling ==
    SplitDone(sp) =>
        \A k \in DOMAIN sp.bins :
            LET bin == sp.bins[k] IN
            /\ \/ SumSizes(bin, sp.listing) <= sp.max_size
               \/ Len(bin) = 1 /\ sp.listing[bin[1]].size > sp.max_size
            /\ \A i \in DOMAIN bin :
                  sp.listing[bin[i]].size > sp.max_size => Len(bin) = 1

\* C3 witness: a finished split with a bin filled to exactly the ceiling by
\* two files and a bin holding one file larger than the ceiling.
C3_Witness ==
    /\ SplitDone(sp)
    /\ \E k \in DOMAIN sp.bins :
          Len(sp.bins[k]) = 2 /\ SumSizes(sp.bins[k], sp.listing) = sp.max_size
    /\ \E k \in DOMAIN sp.bins :
          Len(sp.bins[k]) = 1 /\ sp.listing[sp.bins[k][1]].size > sp.max_size

\* C4: after the split every regular file the source directory held at the
\* start is in exactly one bin, once, nothing else is in a bin, and the
\* source directory holds no regular file (only what was no regular file).
C4_MovedExactlyOnce ==
    SplitDone(sp) =>
        /\ \A f \in DOMAIN sp.listing :
              sp.listing[f].isfile =>
                Cardinality(PlacesOf(sp.bins, f, Len(sp.listing))) = 1
        /\ \A k \in DOMAIN sp.bins : \A i \in DOMAIN sp.bins[k] :
              sp.bins[k][i] \in DOMAIN sp.listing /\ sp.listing[sp.bins[k][i]].isfile
        /\ sp.src = {f \in DOMAIN sp.listing : ~sp.listing[f].isfile}

\* C4 witness: a finished split of three regular files into more than one
\* bin.
C4_Witness ==
    /\ SplitDone(sp)
    /\ Len(sp.file_paths) = 3
    /\ Len(sp.bins) >= 2
    /\ sp.src = {}

(***************************************************************************)
(* The chat: events, context.user_data and the messages sent               *)
(*                                                                         *)
(* The dispatcher (python-telegram-bot's Application, built at line 349)   *)
(* is no part of the repository.  Whatever it does, a handler runs from    *)
(* one await to the next without interruption.  With env.overlap the       *)
(* chat's other handlers may run while handle_download awaits; without,    *)
(* the handlers run one after another.  At most one handle_download of the *)
(* chat runs at a time.  user_data lives in the process's memory while the *)
(* keyboards the bot sent stay in the chat, so any button may be pressed   *)
(* whatever user_data holds.  A handle_callback whose query.answer()       *)
(* raises (line 118) has done nothing and is no step.                      *)
(***************************************************************************)
MaxJobs == 2        \* handle_download calls that reach a download branch
MaxItems == 2       \* stickers of a sticker set

\* retry_async's defaults, the only values the jobs call it with.
DefaultRetries == 5
DefaultDelay == 1
\* max_size_mb as download_and_send_sticker_set passes it.
MaxSizeMb == 49

\* The stickers a user may send, with the object's is_animated and set_name.
StickerObjs == {"a1", "a2", "n1"}
IsAnimated(st) == st \in {"a1", "a2"}
SetNameOf(st) == IF st = "a2" THEN "s2" ELSE "s1"

\* The random suffixes create_unique_directory may draw.
Suffixes == {"x", "y"}

\* The sizes (in MB) of the files a job writes, as the split reads them: all
\* files alike, or alternating.
FileSizes == {20, 30, 50}
Sizings(n, sizes) ==
    {[j \in 1..n |-> sz] : sz \in sizes}
        \cup IF {20, 30} \subseteq sizes
             THEN {[j \in 1..n |-> IF j % 2 = 1 THEN 20 ELSE 30]} ELSE {}

\* The callback_data of the buttons the bot shows (lines 95-96 and 128-130).
ScopeButtons == <<"just_one", "whole_set">>
FormatButtons ==
    <<"format_png", "format_webp", "format_gif", "format_lottie", "format_all">>

\* action.split("_") for the callback data above, and for one that names no
\* format the bot offers.
SplitUnderscore(action) ==
    CASE action = "just_one" -> <<"just", "one">>
      [] action = "whole_set" -> <<"whole", "set">>
      [] action = "format_png" -> <<"format", "png">>
      [] action = "format_webp" -> <<"format", "webp">>
      [] action = "format_gif" -> <<"format", "gif">>
      [] action = "format_lottie" -> <<"format", "lottie">>
      [] action = "format_all" -> <<"format", "all">>
      [] action = "format_tgs" -> <<"format", "tgs">>

\* action in ["just_one", "whole_set"]
IsScopeAction(action) == \E i \in DOMAIN ScopeButtons : ScopeButtons[i] = action

\* action.startswith("format_")
IsFormatAction(action) ==
    LET parts == SplitUnderscore(action) IN Len(parts) >= 2 /\ parts[1] = "format"

\* format = action.split("_")[1]
FormatOf(action) == SplitUnderscore(action)[2]

\* context.user_data: a dict, here a function on the keys it holds.
EmptyDict == [k \in {} |-> None]
DictSet(d, k, v) == [x \in DOMAIN d \cup {k} |-> IF x = k THEN v ELSE d[x]]
DictGet(d, k) == IF k \in DOMAIN d THEN d[k] ELSE None
DictHas(d, k) == k \in DOMAIN d

\* context.user_data.clear()
DictClearMut1(d) == [x \in DOMAIN d \ {"sticker", "sticker_set_name"} |-> d[x]]
DictClear(d) == EmptyDict

\* A message handed to the chat: its text, its buttons, and whether the send
\* succeeded.  A failed send raises in the handler; as a handler's last
\* statement it changes nothing, so sends fail here where code follows them.
Msg(text, buttons, ok) == [text |-> text, buttons |-> buttons, ok |-> ok]

\* What a job hands to the chat: a text, a document sent as it is ("file")
\* or a zip ("archive") with its entries.
Sent(kind, name, entries, ok) ==
    [kind |-> kind, name |-> name, entries |-> entries, ok |-> ok]

\* A path below a job's directory: d is "top" (dir_path itself), "temp" or
\* "split"; b the number of the split directory or of the zip; i the
\* sticker's index; k the file's extension, or "temp/", "split/", "dir/" for
\* a directory.
Path(d, b, i, k) == [d |-> d, b |-> b, i |-> i, k |-> k]

\* The locals of handle_download and of the job it runs.
JobIdle ==
    [pc |-> "idle",
     download_type |-> None, base_name |-> None, format |-> None,
     sticker |-> None,      \* the sticker of a just_one job
     stickers |-> <<>>,     \* sticker_set.stickers: is_animated of each
     dir |-> <<>>,          \* dir_path: <<base_name, suffix>>
     files |-> {},          \* what dir_path holds
     index |-> 0,           \* the for loop's index
     bin |-> 0,             \* the split_subdir being archived
     nbins |-> 0,           \* how many split_subdirs there are
     sizes |-> <<>>,        \* history: the sizes the split read, in listing order
     zipped |-> {},         \* the entries of the archive just written
     sent |-> <<>>,         \* what the job sent to the chat, in order
     items |-> <<>>,        \* history: how each item of the set ended
     logged |-> 0,          \* history: "Error downloading sticker" log lines
     error |-> None,        \* history: what made handle_download's except run
     from |-> None]         \* history: conv when the job started

JobBusy == job.pc # "idle"

\* The session states of the design, read off user_data and the job.
SessionOf(ud, busy) ==
    IF busy THEN "Processing"
    ELSE IF ud = EmptyDict THEN "Idle"
    ELSE IF DictHas(ud, "sticker") /\ ~DictHas(ud, "download_type") THEN "AwaitingScope"
    ELSE IF DictHas(ud, "sticker") /\ DictHas(ud, "download_type") THEN "AwaitingFormat"
    ELSE "ScopeWithoutItem"

\* History: the event, the session state it met and whether the handler left
\* user_data as it was.
Handled(event, arg, ud) ==
    [event |-> event, arg |-> arg, from |-> SessionOf(user_data, JobBusy),
     kept |-> (ud = user_data)]

\* Whether the dispatcher may run another handler of the chat now.
MayHandle == env.overlap \/ ~JobBusy

\* Another chat's job: the directory it allocated and what that holds.
PeerIdle == [pc |-> "idle", dir |-> <<>>, files |-> {}, error |-> None]

ChatInit(e) ==
    /\ rt = RetryIdle
    /\ sp = None
    /\ user_data = EmptyDict
    /\ job = JobIdle
    /\ fs = {}
    /\ reply = <<>>
    /\ conv = "none"
    /\ last = [event |-> "none", arg |-> None, from |-> "Idle", kept |-> TRUE]
    /\ njobs = 0
    /\ env = e
    /\ peer = PeerIdle

\* The inputs a specification admits: how many jobs the chat starts, how many
\* stickers a set has, whether handlers run while a job awaits, the format
\* buttons pressed and the sizes of the files written.
Inputs(max_jobs, max_items, overlap, formats, sizes) ==
    [max_jobs |-> max_jobs, max_items |-> max_items, overlap |-> overlap,
     formats |-> formats, sizes |-> sizes]

AllFormats == {FormatButtons[i] : i \in DOMAIN FormatButtons}

Init == ChatInit(Inputs(MaxJobs, 1, FALSE, AllFormats, FileSizes))
JobInit == ChatInit(Inputs(1, MaxItems, FALSE, AllFormats, FileSizes))
OverlapInit == ChatInit(Inputs(1, 1, TRUE, {"format_png", "format_gif"}, {20}))
OtherInit == ChatInit(Inputs(1, 1, FALSE, AllFormats \cup {"format_tgs"}, {20}))

\* /start
Start ==
    /\ MayHandle
    /\ reply' = <<Msg("welcome", <<>>, TRUE)>>
    /\ user_data' = DictClear(user_data)
    /\ conv' = "none"
    /\ last' = Handled("start", None, user_data')
    /\ UNCHANGED <<rt, sp, job, fs, njobs, env, peer>>

\* /stop
Stop ==
    /\ MayHandle
    /\ reply' = <<Msg("stopped", <<>>, TRUE)>>
    /\ user_data' = DictClear(user_data)
    /\ conv' = "none"
    /\ last' = Handled("stop", None, user_data')
    /\ UNCHANGED <<rt, sp, job, fs, njobs, env, peer>>

\* if sticker and sticker.is_animated
AcceptsStickerMut1(st) == TRUE
AcceptsSticker(st) == IsAnimated(st)

\* handle_sticker: a sticker message.
HandleSticker ==
    /\ MayHandle
    /\ \E st \in StickerObjs, ok \in BOOLEAN :
        /\ IF AcceptsSticker(st)
           THEN /\ user_data' = DictSet(DictSet(user_data, "sticker_set_name", SetNameOf(st)),
                                        "sticker", st)
                /\ reply' = IF ok
                            THEN <<Msg("choose_scope", ScopeButtons, TRUE)>>
                            ELSE <<Msg("choose_scope", ScopeButtons, FALSE),
                                   Msg("sticker_error", <<>>, TRUE)>>
                /\ conv' = "item"
           ELSE /\ reply' = <<Msg("send_animated", <<>>, TRUE)>>
                /\ UNCHANGED <<user_data, conv>>
        /\ last' = Handled("sticker", st, user_data')
    /\ UNCHANGED <<rt, sp, job, fs, njobs, env, peer>>

\* handle_callback, first branch: one of the two scope buttons.
HandleCallbackScope ==
    /\ MayHandle
    /\ \E action \in {ScopeButtons[i] : i \in DOMAIN ScopeButtons}, ok \in BOOLEAN :
        /\ IsScopeAction(action)
        /\ user_data' = DictSet(user_data, "download_type", action)
        /\ reply' = IF ok
                    THEN <<Msg("choose_format", <<>>, TRUE),
                           Msg("choose_format", FormatButtons, TRUE)>>
                    ELSE <<Msg("choose_format", <<>>, FALSE)>>
        /\ conv' = IF conv = "none" THEN "none" ELSE "scoped"
        /\ last' = Handled("scope", None, user_data')
    /\ UNCHANGED <<rt, sp, job, fs, njobs, env, peer>>

\* if download_type == "just_one" ... elif download_type == "whole_set"
StartsDownload(download_type) == download_type \in {"just_one", "whole_set"}

\* handle_callback, second branch, and handle_download up to its first await:
\* a format button.  With no download_type recorded nothing is done or sent.
HandleCallbackFormat ==
    /\ ~JobBusy
    /\ \E action \in env.formats :
        /\ ~IsScopeAction(action)
        /\ IsFormatAction(action)
        /\ LET download_type == DictGet(user_data, "download_type")
               sticker_set_name == DictGet(user_data, "sticker_set_name")
           IN  IF StartsDownload(download_type)
               THEN /\ njobs < env.max_jobs
                    /\ job' = [JobIdle EXCEPT !.pc = "announce",
                                              !.download_type = download_type,
                                              !.base_name = sticker_set_name,
                                              !.format = FormatOf(action),
                                              !.from = conv]
                    /\ njobs' = njobs + 1
                    /\ conv' = "none"
               ELSE UNCHANGED <<job, njobs, conv>>
        /\ last' = Handled("format", None, user_data)
    /\ reply' = <<>>
    /\ UNCHANGED <<rt, sp, user_data, fs, env, peer>>

(***************************************************************************)
(* handle_download and the two jobs                                        *)
(***************************************************************************)
\* sticker_set.stickers as get_sticker_set may return it: is_animated of
\* each sticker, at least one and at most n stickers.
StickerSeqs(n) == UNION {[1..m -> BOOLEAN] : m \in 1..n}

\* The next index after i the for loop does anything for (line 273), or
\* Len(stickers) + 1.
RECURSIVE NextAnimated(_, _)
NextAnimated(stickers, i) ==
    IF i + 1 > Len(stickers) THEN Len(stickers) + 1
    ELSE IF stickers[i + 1] THEN i + 1
    ELSE NextAnimated(stickers, i + 1)

\* The files the branch of a format writes, in order (convert_tgs_to_lottie
\* ends with a .txt); no branch matches another format.
ConvKinds(format) ==
    CASE format = "gif" -> <<"gif">>
      [] format = "png" -> <<"png">>
      [] format = "webp" -> <<"webp">>
      [] format = "lottie" -> <<"txt">>
      [] format = "all" -> <<"gif", "png", "webp", "txt">>
      [] OTHER -> <<>>

\* Whether download_and_send_sticker zips what it converted.
ZipsOutputMut1(format) == format \in {"gif", "webp", "all", "png"}
ZipsOutput(format) == format \in {"gif", "webp", "all"}

\* Whether download_and_send_sticker sends the converted file as it is.
SendsDirect(format) == format \in {"png", "lottie"}

\* What the first p conversions of sticker i leave in directory d.  A
\* conversion that raises leaves nothing of its own, except that
\* convert_tgs_to_lottie has opened its .json before it reads the input.
Converted(d, i, format, p) ==
    LET kinds == ConvKinds(format) IN
    {Path(d, 0, i, kinds[q]) : q \in 1..p}
        \cup (IF p < Len(kinds) /\ kinds[p + 1] = "txt"
              THEN {Path(d, 0, i, "json")} ELSE {})

\* An archive's entry: the file of sticker i with extension k.
Entry(p) == [i |-> p.i, k |-> p.k]

\* create_unique_directory: the name it builds; os.makedirs raises when the
\* directory exists.
DirName(base_name, suffix) == <<base_name, suffix>>

\* os.makedirs(dir_path), line 24: FileExistsError when the path exists.
MakedirsRaisesMut1(dir, dirs) == FALSE
MakedirsRaises(dir, dirs) == dir \in dirs

\* An exception reached handle_download's except clause.
RaisedMut1(j, cause) == [j EXCEPT !.pc = "done", !.error = cause]
Raised(j, cause) == [j EXCEPT !.pc = "except", !.error = cause]

\* The exception of one item of a set: logged, and the loop goes on
\* (lines 294-296).
ItemRaisedMut1(j, how) == Raised([j EXCEPT !.items[j.index] = how], how)
ItemRaised(j, how) ==
    LET next == NextAnimated(j.stickers, j.index) IN
    [j EXCEPT !.logged = @ + 1,
              !.items[j.index] = how,
              !.index = next,
              !.pc = IF next <= Len(j.stickers) THEN "get_file" ELSE "split"]

\* The send of "Downloading ..." ended (lines 162 and 166).  A just_one job
\* then reads the sticker from user_data and allocates its directory.
JobAnnounced ==
    /\ job.pc = "announce"
    /\ \E ok \in BOOLEAN, suffix \in Suffixes :
        LET j == [job EXCEPT !.sent = Append(@, Sent("text", "downloading", {}, ok))]
            dir == DirName(job.base_name, suffix)
        IN  IF ~ok
            THEN job' = Raised(j, "send_message") /\ UNCHANGED <<fs, rt>>
            ELSE IF job.download_type = "whole_set"
            THEN job' = [j EXCEPT !.pc = "get_set"] /\ UNCHANGED <<fs, rt>>
            ELSE IF ~DictHas(user_data, "sticker")
            THEN job' = Raised(j, "KeyError") /\ UNCHANGED <<fs, rt>>
            ELSE IF MakedirsRaises(dir, fs)
            THEN job' = Raised([j EXCEPT !.sticker = user_data["sticker"]],
                               "FileExistsError")
                 /\ UNCHANGED <<fs, rt>>
            ELSE /\ job' = [j EXCEPT !.sticker = user_data["sticker"],
                                     !.dir = dir, !.index = 1, !.pc = "get_file"]
                 /\ fs' = fs \cup {dir}
                 /\ rt' = RetryStart(DefaultRetries, DefaultDelay)
    /\ UNCHANGED <<sp, user_data, reply, conv, last, njobs, env, peer>>

\* get_sticker_set ended (line 167); download_and_send_sticker_set then
\* allocates its directory and temp in it and enters the loop.
JobGotSet ==
    /\ job.pc = "get_set"
    /\ \E ok \in BOOLEAN, stickers \in StickerSeqs(env.max_items), suffix \in Suffixes :
        LET dir == DirName(job.base_name, suffix)
            first == NextAnimated(stickers, 0)
        IN  IF ~ok \/ job.base_name = None
            THEN job' = Raised(job, "get_sticker_set") /\ UNCHANGED <<fs, rt>>
            ELSE IF MakedirsRaises(dir, fs)
            THEN job' = Raised([job EXCEPT !.stickers = stickers], "FileExistsError")
                 /\ UNCHANGED <<fs, rt>>
            ELSE /\ job' = [job EXCEPT
                              !.stickers = stickers,
                              !.dir = dir,
                              !.files = {Path("top", 0, 0, "temp/")},
                              !.items = [i \in 1..Len(stickers) |->
                                           IF stickers[i] THEN "pending" ELSE "static"],
                              !.index = first,
                              !.pc = IF first <= Len(stickers) THEN "get_file" ELSE "split"]
                 /\ fs' = fs \cup {dir}
                 /\ rt' = IF first <= Len(stickers)
                          THEN RetryStart(DefaultRetries, DefaultDelay) ELSE RetryIdle
    /\ UNCHANGED <<sp, user_data, reply, conv, last, njobs, env, peer>>

\* Where the downloaded sticker goes: dir_path in a just_one job, temp_dir
\* in a whole_set job.
StickerDir(j) == IF j.download_type = "just_one" THEN "top" ELSE "temp"

\* sticker.get_file or download_to_drive returned inside retry_async, whose
\* frame is gone once it has returned or raised.
JobFetchOk ==
    /\ job.pc \in {"get_file", "download"}
    /\ rt.status = "calling"
    /\ LET r == RetryReturned(rt, "v1") IN
       IF r.status # "returned"
       THEN rt' = r /\ UNCHANGED job
       ELSE IF job.pc = "get_file"
       THEN /\ job' = [job EXCEPT !.pc = "download"]
            /\ rt' = RetryStart(DefaultRetries, DefaultDelay)
       ELSE /\ job' = [job EXCEPT
                         !.files = @ \cup {Path(StickerDir(job), 0, job.index, "tgs")},
                         !.pc = "convert"]
            /\ rt' = RetryIdle
    /\ UNCHANGED <<sp, user_data, fs, reply, conv, last, njobs, env, peer>>

\* sticker.get_file or download_to_drive raised inside retry_async: it
\* sleeps, or re-raises into the job.
JobFetchFail ==
    /\ job.pc \in {"get_file", "download"}
    /\ rt.status = "calling"
    /\ LET r == RetryRaised(rt) IN
       IF r.status # "raised"
       THEN rt' = r /\ UNCHANGED job
       ELSE IF job.download_type = "just_one"
       THEN rt' = RetryIdle /\ job' = Raised(job, job.pc)
       ELSE /\ job' = ItemRaised(job, "fetch_failed")
            /\ rt' = IF job'.pc = "get_file"
                     THEN RetryStart(DefaultRetries, DefaultDelay) ELSE RetryIdle
    /\ UNCHANGED <<sp, user_data, fs, reply, conv, last, njobs, env, peer>>

\* retry_async's sleep is over.
JobFetchWake ==
    /\ job.pc \in {"get_file", "download"}
    /\ rt.status = "sleeping"
    /\ rt' = RetryWoke(rt)
    /\ UNCHANGED <<sp, user_data, job, fs, reply, conv, last, njobs, env, peer>>

\* What download_and_send_sticker removes after a successful send: the zip
\* (send_zip_file), the converted files and the sticker file.
RemovedAfterSend(j) ==
    {Path("top", 0, 0, "zip"), Path("top", 0, 1, "tgs")}
        \cup Converted("top", 1, j.format, Len(ConvKinds(j.format)))

\* Lines 236-237: os.remove(sticker_path) and os.rmdir(dir_path), which
\* raises unless the directory is empty.
JobCleanup(j, dirs) ==
    LET left == j.files \ RemovedAfterSend(j) IN
    IF left = {}
    THEN [job |-> [j EXCEPT !.files = {}, !.pc = "done"], fs |-> dirs \ {j.dir}]
    ELSE [job |-> Raised([j EXCEPT !.files = left], "rmdir"), fs |-> dirs]

\* download_and_send_sticker, lines 195-234, up to its send: the
\* conversions of the format, p of them succeeding, and the zip.
JobConvertOne ==
    /\ job.pc = "convert"
    /\ job.download_type = "just_one"
    /\ \E p \in 0..Len(ConvKinds(job.format)), zipok \in BOOLEAN :
        LET j == [job EXCEPT !.files = @ \cup Converted("top", 1, job.format, p)]
            outputs == Converted("top", 1, job.format, Len(ConvKinds(job.format)))
        IN  IF p < Len(ConvKinds(job.format))
            THEN job' = Raised(j, "convert") /\ UNCHANGED fs
            ELSE IF ZipsOutput(job.format)
            THEN /\ job' = IF zipok
                           THEN [j EXCEPT !.files = @ \cup {Path("top", 0, 0, "zip")},
                                          !.zipped = {Entry(f) : f \in outputs},
                                          !.pc = "send"]
                           ELSE Raised([j EXCEPT !.files = @ \cup {Path("top", 0, 0, "zip")}],
                                       "zip")
                 /\ UNCHANGED fs
            ELSE IF SendsDirect(job.format)
            THEN job' = [j EXCEPT !.pc = "send"] /\ UNCHANGED fs
            ELSE /\ job' = JobCleanup(j, fs).job
                 /\ fs' = JobCleanup(j, fs).fs
    /\ UNCHANGED <<rt, sp, user_data, reply, conv, last, njobs, env, peer>>

\* send_zip_file or send_document of download_and_send_sticker ended, and
\* the rest of the function.
JobSendOne ==
    /\ job.pc = "send"
    /\ job.download_type = "just_one"
    /\ \E ok \in BOOLEAN :
        LET what == IF ZipsOutput(job.format)
                    THEN Sent("archive", "zip", job.zipped, ok)
                    ELSE Sent("file", ConvKinds(job.format)[1], {}, ok)
            j == [job EXCEPT !.sent = Append(@, what)]
        IN  IF ~ok
            THEN job' = Raised(j, "send_document") /\ UNCHANGED fs
            ELSE /\ job' = JobCleanup(j, fs).job
                 /\ fs' = JobCleanup(j, fs).fs
    /\ UNCHANGED <<rt, sp, user_data, reply, conv, last, njobs, env, peer>>

\* download_and_send_sticker_set, lines 279-296: the conversions of one
\* sticker, p of them succeeding.
JobConvertItem ==
    /\ job.pc = "convert"
    /\ job.download_type = "whole_set"
    /\ \E p \in 0..Len(ConvKinds(job.format)) :
        LET j == [job EXCEPT !.files = @ \cup Converted("temp", job.index, job.format, p)]
            next == NextAnimated(job.stickers, job.index)
        IN  IF p < Len(ConvKinds(job.format))
            THEN job' = ItemRaised(j, "convert_failed")
            ELSE job' = [j EXCEPT !.items[job.index] = "ok",
                                  !.index = next,
                                  !.pc = IF next <= Len(job.stickers)
                                         THEN "get_file" ELSE "split"]
    /\ rt' = IF job'.pc = "get_file"
             THEN RetryStart(DefaultRetries, DefaultDelay) ELSE RetryIdle
    /\ UNCHANGED <<sp, user_data, fs, reply, conv, last, njobs, env, peer>>

\* os.listdir(temp_dir) in the order of index and extension.
KindOrder == <<"tgs", "gif", "png", "webp", "json", "txt">>

RECURSIVE TempListing(_, _, _, _)
TempListing(files, n, i, q) ==
    IF i > n THEN <<>>
    ELSE IF q > Len(KindOrder) THEN TempListing(files, n, i + 1, 1)
    ELSE (IF Path("temp", 0, i, KindOrder[q]) \in files
          THEN <<Path("temp", 0, i, KindOrder[q])>> ELSE <<>>)
             \o TempListing(files, n, i, q + 1)

Reverse(seq) == [i \in 1..Len(seq) |-> seq[Len(seq) + 1 - i]]

\* Lines 298-299: split_files_into_directories(temp_dir, split_dir, 49).
\* os.listdir's order is the file system's: here by name or its reverse.
JobSplit ==
    /\ job.pc = "split"
    /\ \E rev \in BOOLEAN :
        LET asc == TempListing(job.files, Len(job.stickers), 1, 1)
            paths == IF rev THEN Reverse(asc) ELSE asc
        IN  \E sizing \in Sizings(Len(paths), env.sizes) :
            LET r == SplitRun([f \in 1..Len(paths) |->
                                 [size |-> sizing[f], isfile |-> TRUE]], MaxSizeMb)
                moved == {Path("split", b - 1, paths[r.bins[b][q]].i, paths[r.bins[b][q]].k) :
                            <<b, q>> \in {x \in (DOMAIN r.bins) \X (1..Len(paths)) :
                                            x[2] \in DOMAIN r.bins[x[1]]}}
            IN  job' = [job EXCEPT
                          !.files = (@ \ {paths[f] : f \in (1..Len(paths)) \ r.src})
                                      \cup {Path("top", 0, 0, "split/")}
                                      \cup {Path("split", b - 1, 0, "dir/") : b \in DOMAIN r.bins}
                                      \cup moved,
                          !.nbins = Len(r.bins),
                          !.sizes = sizing,
                          !.bin = 0,
                          !.pc = "zip"]
    /\ UNCHANGED <<rt, sp, user_data, fs, reply, conv, last, njobs, env, peer>>

\* The files of split directory b.
BinFilesMut1(files, b) == {f \in files : f.d = "split" /\ f.k # "dir/"}
BinFiles(files, b) == {f \in files : f.d = "split" /\ f.b = b /\ f.k # "dir/"}

\* Lines 301-308: the zip of one split directory is written; the
\* directories are taken in the order of their numbers.
JobZip ==
    /\ job.pc = "zip"
    /\ \E ok \in BOOLEAN :
        LET j == [job EXCEPT !.files = @ \cup {Path("top", job.bin, 0, "zip")}]
        IN  job' = IF ok
                   THEN [j EXCEPT !.zipped = {Entry(f) : f \in BinFiles(job.files, job.bin)},
                                  !.pc = "send"]
                   ELSE Raised(j, "zip")
    /\ UNCHANGED <<rt, sp, user_data, fs, reply, conv, last, njobs, env, peer>>

\* shutil.rmtree(temp_dir) and shutil.rmtree(split_dir), lines 311-312.
AfterRmtree(files) == {f \in files : f.d = "top" /\ f.k \notin {"temp/", "split/"}}

\* Line 309: send_zip_file of one zip ended; after the last one the two
\* subdirectories are removed.
JobSendZip ==
    /\ job.pc = "send"
    /\ job.download_type = "whole_set"
    /\ \E ok \in BOOLEAN :
        LET j == [job EXCEPT !.sent = Append(@, Sent("archive", "zip", job.zipped, ok))]
        IN  job' = IF ~ok
                   THEN Raised(j, "send_document")
                   ELSE IF job.bin + 1 < job.nbins
                   THEN [j EXCEPT !.files = @ \ {Path("top", job.bin, 0, "zip")},
                                  !.bin = @ + 1,
                                  !.pc = "zip"]
                   ELSE [j EXCEPT !.files = AfterRmtree(@ \ {Path("top", job.bin, 0, "zip")}),
                                  !.pc = "done"]
    /\ UNCHANGED <<rt, sp, user_data, fs, reply, conv, last, njobs, env, peer>>

\* handle_download's except clause, lines 169-171: the error is logged and
\* the failure message sent.
JobExcept ==
    /\ job.pc = "except"
    /\ \E ok \in BOOLEAN :
        job' = [job EXCEPT !.sent = Append(@, Sent("text", "download_error", {}, ok)),
                           !.pc = "failed"]
    /\ UNCHANGED <<rt, sp, user_data, fs, reply, conv, last, njobs, env, peer>>

\* handle_download has returned: its locals are gone.
JobReturn ==
    /\ job.pc \in {"done", "failed"}
    /\ job' = JobIdle
    /\ UNCHANGED <<rt, sp, user_data, fs, reply, conv, last, njobs, env, peer>>

\* The other chat's job allocates its directory (create_unique_directory
\* for a set name and a suffix) and downloads into it, or fails on a name
\* that exists.
PeerAllocate ==
    /\ peer.pc = "idle"
    /\ \E st \in {x \in StickerObjs : IsAnimated(x)}, suffix \in Suffixes :
        LET dir == DirName(SetNameOf(st), suffix) IN
        IF MakedirsRaises(dir, fs)
        THEN /\ peer' = [peer EXCEPT !.pc = "ended", !.error = "FileExistsError"]
             /\ UNCHANGED fs
        ELSE /\ peer' = [peer EXCEPT !.pc = "working", !.dir = dir,
                                     !.files = {Path("top", 0, 1, "tgs")}]
             /\ fs' = fs \cup {dir}
    /\ UNCHANGED <<rt, sp, user_data, job, reply, conv, last, njobs, env>>

\* The other chat's job ends: a just_one job that succeeded has removed its
\* directory (line 237), any other job leaves it.
PeerEnd ==
    /\ peer.pc = "working"
    /\ \E removed \in BOOLEAN :
        /\ peer' = [peer EXCEPT !.pc = "ended",
                                !.files = IF removed THEN {} ELSE @]
        /\ fs' = IF removed THEN fs \ {peer.dir} ELSE fs
    /\ UNCHANGED <<rt, sp, user_data, job, reply, conv, last, njobs, env>>

Next ==
    \/ Start
    \/ Stop
    \/ HandleSticker
    \/ HandleCallbackScope
    \/ HandleCallbackFormat
    \/ JobAnnounced
    \/ JobGotSet
    \/ JobFetchOk
    \/ JobFetchFail
    \/ JobFetchWake
    \/ JobConvertOne
    \/ JobSendOne
    \/ JobConvertItem
    \/ JobSplit
    \/ JobZip
    \/ JobSendZip
    \/ JobExcept
    \/ JobReturn

Spec == Init /\ [][Next]_vars
SpecJob == JobInit /\ [][Next]_vars
SpecOverlap == OverlapInit /\ [][Next]_vars
SpecOther == OtherInit /\ [][Next]_vars

\* A step of handle_download.  Every await of the job ends, with a result
\* or an exception, and the event loop then resumes the job: the steps are
\* weakly fair.
JobStep ==
    \/ JobAnnounced
    \/ JobGotSet
    \/ JobFetchOk
    \/ JobFetchFail
    \/ JobFetchWake
    \/ JobConvertOne
    \/ JobSendOne
    \/ JobConvertItem
    \/ JobSplit
    \/ JobZip
    \/ JobSendZip
    \/ JobExcept
    \/ JobReturn
LiveInit == ChatInit(Inputs(1, MaxItems, FALSE, {"format_png", "format_gif"}, {20}))
SpecLive == LiveInit /\ [][Next]_vars /\ WF_vars(JobStep)

\* Two chats whose jobs run side by side.
PeersInit == ChatInit(Inputs(1, 1, FALSE, {"format_png", "format_gif"}, {20}))
PeersNext == Next \/ PeerAllocate \/ PeerEnd
SpecPeers == PeersInit /\ [][PeersNext]_vars

(***************************************************************************)
(* Claims about the jobs and the conversation                              *)
(***************************************************************************)
\* Whether handle_download has ended, one way or the other.
JobEnded == job.pc \in {"done", "failed"}

\* C5: once a job that allocated its workspace has ended, successfully or
\* through handle_download's except clause, the workspace directory
\* {base_name}_{suffix} no longer exists and nothing is left under it.
C5_WorkspaceRemoved ==
    (JobEnded /\ job.dir # <<>>) => (job.dir \notin fs /\ job.files = {})

\* The items of a whole_set job that ended as `how`.
ItemsThat(how) == {i \in DOMAIN job.items : job.items[i] = how}

\* The entries of the archives the job delivered.
Delivered ==
    UNION {job.sent[m].entries :
             m \in {n \in DOMAIN job.sent : job.sent[n].kind = "archive" /\ job.sent[n].ok}}

\* C6: in a whole_set job the failure of one sticker's fetch (retries
\* exhausted) or conversion never reaches handle_download's except clause;
\* it is logged once and the loop goes on: when the job splits, every
\* animated sticker of the set has been fetched and converted or has failed
\* and been logged, and when the job is done the archives it delivered hold
\* every output of every sticker that was converted.
C6_ItemFailureSkipped ==
    job.download_type = "whole_set" =>
        /\ job.error \notin {"fetch_failed", "convert_failed", "get_file", "download", "convert"}
        /\ job.logged = Cardinality(ItemsThat("fetch_failed") \cup ItemsThat("convert_failed"))
        /\ job.pc \in {"split", "zip", "send", "done"} => ItemsThat("pending") = {}
        /\ job.pc = "done" =>
              \A i \in ItemsThat("ok") : \A q \in DOMAIN ConvKinds(job.format) :
                  [i |-> i, k |-> ConvKinds(job.format)[q]] \in Delivered

\* C6 witness: a finished whole_set job of two animated stickers whose first
\* sticker's fetch failed for good and whose second sticker's outputs were
\* delivered.
C6_Witness ==
    /\ job.pc = "done"
    /\ job.download_type = "whole_set"
    /\ job.format = "all"
    /\ job.items = <<"fetch_failed", "ok">>
    /\ job.logged = 1
    /\ [i |-> 2, k |-> "gif"] \in Delivered

\* C7: after /stop or /start, whatever state the session was in (a job in
\* flight included), user_data holds nothing: no sticker, no sticker set
\* name, no download_type (the format is never recorded there).
C7_ResetClears ==
    last.event \in {"stop", "start"} =>
        /\ user_data = EmptyDict
        /\ ~DictHas(user_data, "sticker")
        /\ ~DictHas(user_data, "sticker_set_name")
        /\ ~DictHas(user_data, "download_type")
        /\ SessionOf(user_data, FALSE) = "Idle"

\* C7 witness: /stop handled while a job of the chat is in flight, with
\* fields to clear.
C7_Witness ==
    /\ last.event = "stop"
    /\ last.from = "Processing"
    /\ ~last.kept
    /\ JobBusy

\* C8: a sticker message met in Idle: when the sticker is not animated
\* user_data is left as it was (empty) and the only message sent is the
\* rejection; when it is animated user_data then holds the sticker and its
\* set name and no download_type (AwaitingScope), and the first message
\* handed to the chat is the prompt with the two buttons just_one and
\* whole_set.
C8_StickerFromIdle ==
    (last.event = "sticker" /\ last.from = "Idle") =>
        IF IsAnimated(last.arg)
        THEN /\ SessionOf(user_data, FALSE) = "AwaitingScope"
             /\ DictGet(user_data, "sticker") = last.arg
             /\ DictGet(user_data, "sticker_set_name") = SetNameOf(last.arg)
             /\ ~DictHas(user_data, "download_type")
             /\ reply[1].text = "choose_scope"
             /\ reply[1].buttons = <<"just_one", "whole_set">>
        ELSE /\ last.kept
             /\ user_data = EmptyDict
             /\ reply = <<Msg("send_animated", <<>>, TRUE)>>

\* C8 witness: an animated sticker handled in Idle, its prompt sent.
C8_Witness ==
    /\ last.event = "sticker"
    /\ last.from = "Idle"
    /\ last.arg = "a2"
    /\ reply = <<Msg("choose_scope", ScopeButtons, TRUE)>>

\* C9: every job handle_download starts is preceded, since the last /start,
\* /stop or job, by an animated sticker and then a scope button pressed for
\* that sticker.
C9_JobAfterItemAndScope ==
    JobBusy => job.from = "scoped"

\* C10: a just_one job that is done has sent, besides its announcement,
\* exactly one document: for png and lottie the converted file as it is,
\* for gif and webp one zip with that one file, for all one zip with the
\* four files gif, png, webp and txt; and its directory is gone.
C10_DeliveryPolicy ==
    (job.pc = "done" /\ job.download_type = "just_one") =>
        /\ Len(job.sent) = 2
        /\ job.sent[1] = Sent("text", "downloading", {}, TRUE)
        /\ job.sent[2].ok
        /\ job.format \in {"png", "lottie"} =>
              /\ job.sent[2].kind = "file"
              /\ job.sent[2].name = (IF job.format = "png" THEN "png" ELSE "txt")
        /\ job.format \in {"gif", "webp"} =>
              /\ job.sent[2].kind = "archive"
              /\ job.sent[2].entries = {[i |-> 1, k |-> job.format]}
        /\ job.format = "all" =>
              /\ job.sent[2].kind = "archive"
              /\ job.sent[2].entries = {[i |-> 1, k |-> k] : k \in {"gif", "png", "webp", "txt"}}
              /\ Cardinality(job.sent[2].entries) = 4
        /\ job.format \in {"png", "lottie", "gif", "webp", "all"}
        /\ job.dir \notin fs
        /\ job.files = {}

\* C10 witness: a just_one job in format all that is done, its one zip of
\* four entries sent.
C10_Witness ==
    /\ job.pc = "done"
    /\ job.download_type = "just_one"
    /\ job.format = "all"
    /\ Len(job.sent) = 2
    /\ job.sent[2].kind = "archive"
    /\ Cardinality(job.sent[2].entries) = 4

(***************************************************************************)
(* Further claims about retry_async (SpecRetry) and the splitter           *)
(* (SpecSplit)                                                             *)
(***************************************************************************)
\* C17 as stated: with retries = 5 and delay = 1 an operation that always
\* fails is waited for 1, 2, 4, 8 and 16 seconds.
C17_WaitsUpTo16 ==
    (rt.retries = DefaultRetries /\ rt.delay = DefaultDelay /\ rt.status = "raised") =>
        rt.waits = <<1, 2, 4, 8, 16>>

\* C17, amended: with retries = 5 and delay = 1 an operation that always
\* fails is waited for 1, 2, 4 and 8 seconds, four waits between the five
\* attempts; the fifth failure is re-raised without a wait.
C17_WaitsUpTo8 ==
    (rt.retries = DefaultRetries /\ rt.delay = DefaultDelay /\ rt.status = "raised") =>
        /\ rt.waits = <<1, 2, 4, 8>>
        /\ rt.calls = 5
        /\ rt.trace[Len(rt.trace)] = "raise"
        /\ rt.trace[Len(rt.trace) - 1] = "log"

\* C17 witness: the default call has failed five times and re-raised.
C17_Witness ==
    /\ rt.retries = 5 /\ rt.delay = 1 /\ rt.status = "raised"
    /\ rt.fails = 5 /\ Len(rt.waits) = 4

\* The bins one after another.
RECURSIVE Flatten(_)
Flatten(bins) == IF bins = <<>> THEN <<>> ELSE Head(bins) \o Flatten(Tail(bins))

\* C18: the bins of a finished split are the greedy left-to-right packing:
\* one after another they are the listing order of the regular files (each
\* bin a contiguous run); a file lies behind others in its bin, or in bin 0,
\* only if the bin's size up to and including it is at most the ceiling (a
\* file that fills the bin to exactly the ceiling stays); and every later bin
\* is non-empty and was opened by a first file that did not fit, the size of
\* the bin before plus its own being strictly greater than the ceiling, so
\* no bin is opened without need.
C18_GreedyPacking ==
    SplitDone(sp) =>
        /\ Flatten(sp.bins) = sp.file_paths
        /\ Len(sp.bins) = sp.dir_count + 1
        /\ \A k \in DOMAIN sp.bins : \A n \in DOMAIN sp.bins[k] :
              (k = 1 \/ n > 1) =>
                  SumSizes(SubSeq(sp.bins[k], 1, n), sp.listing) <= sp.max_size
        /\ \A k \in 2..Len(sp.bins) :
              /\ sp.bins[k] # <<>>
              /\ SumSizes(sp.bins[k - 1], sp.listing) + sp.listing[sp.bins[k][1]].size
                    > sp.max_size

\* C18 witness: three files, the first two filling bin 0 to exactly the
\* ceiling, the third opening bin 1.
C18_Witness ==
    /\ SplitDone(sp)
    /\ Len(sp.file_paths) = 3
    /\ Len(sp.bins) = 2
    /\ Len(sp.bins[1]) = 2
    /\ sp.listing[sp.bins[1][1]].size > 0
    /\ SumSizes(sp.bins[1], sp.listing) = sp.max_size
    /\ Len(sp.bins[2]) = 1

(***************************************************************************)
(* Further claims about the conversation and the jobs                      *)
(***************************************************************************)
\* C14: when handle_download has ended, with the documents sent or through
\* its except clause, the last thing it sent is a closing text message and
\* user_data is empty again, as before any sticker was received.
C14_BackToIdle ==
    JobEnded =>
        /\ SessionOf(user_data, FALSE) = "Idle"
        /\ Len(job.sent) >= 2
        /\ job.sent[Len(job.sent)].kind = "text"

\* C15: after an animated sticker handled while user_data already held a
\* sticker (with or without a download_type), user_data holds the new
\* sticker and its set name and nothing else: no download_type.
C15_NewItemReplaces ==
    (/\ last.event = "sticker"
     /\ IsAnimated(last.arg)
     /\ last.from \in {"AwaitingScope", "AwaitingFormat"}) =>
        /\ user_data = DictSet(DictSet(EmptyDict, "sticker_set_name", SetNameOf(last.arg)),
                               "sticker", last.arg)
        /\ SessionOf(user_data, FALSE) = "AwaitingScope"

\* C16: a just_one job that is done with a format that is none of gif, png,
\* webp, lottie, all has sent the sticker file as it was downloaded.
C16_OtherFormatSendsSource ==
    (/\ job.pc = "done"
     /\ job.download_type = "just_one"
     /\ job.format \notin {"gif", "png", "webp", "lottie", "all"}) =>
        \E m \in DOMAIN job.sent :
            job.sent[m].kind \in {"file", "archive"} /\ job.sent[m].ok

\* C19: a scope button handled in Idle, a format button handled in Idle or
\* AwaitingScope, and a sticker that is not animated handled in any state
\* leave user_data as it was.
C19_UnmatchedKeeps ==
    (\/ last.event = "scope" /\ last.from = "Idle"
     \/ last.event = "format" /\ last.from \in {"Idle", "AwaitingScope"}
     \/ last.event = "sticker" /\ ~IsAnimated(last.arg)) =>
        last.kept

RECURSIVE Total(_)
Total(sizes) == IF sizes = <<>> THEN 0 ELSE Head(sizes) + Total(Tail(sizes))

\* The archives a job has delivered.
Archives == {m \in DOMAIN job.sent : job.sent[m].kind = "archive" /\ job.sent[m].ok}

\* C13 as stated: a whole_set job whose files add up to 120 MB is split with
\* the ceiling of 49 MB into exactly 3 bins and delivers exactly 3 archives.
C13_ExactlyThreeBins ==
    (/\ job.download_type = "whole_set"
     /\ job.pc = "done"
     /\ Total(job.sizes) = 120) =>
        job.nbins = 3 /\ Cardinality(Archives) = 3

\* C13, amended: a whole_set job whose files add up to 120 MB, none larger
\* than the ceiling of 49 MB, is split into at least 3 bins and at most one
\* bin per file, and when it is done it has delivered one archive per bin.
C13_AtLeastThreeBins ==
    (/\ job.download_type = "whole_set"
     /\ job.pc \in {"zip", "send", "done"}
     /\ Total(job.sizes) = 120
     /\ \A f \in DOMAIN job.sizes : job.sizes[f] <= MaxSizeMb) =>
        /\ job.nbins >= 3
        /\ job.nbins <= Len(job.sizes)
        /\ job.pc = "done" => Cardinality(Archives) = job.nbins

\* C13 witness: a done whole_set job of six files of 20 MB, in three bins
\* and three archives.
C13_Witness ==
    /\ job.download_type = "whole_set"
    /\ job.pc = "done"
    /\ job.sizes = <<20, 20, 20, 20, 20, 20>>
    /\ job.nbins = 3
    /\ Cardinality(Archives) = 3

(***************************************************************************)
(* Claims about two chats (checked under SpecPeers)                        *)
(***************************************************************************)
\* The errors the design calls job-fatal: the allocation, the fetch or the
\* conversion of a just_one job, the writing of an archive.
JobFatal ==
    \/ job.error \in {"FileExistsError", "zip"}
    \/ job.download_type = "just_one" /\ job.error \in {"get_file", "download", "convert"}

C12_Exclusive ==
    /\ []((job.dir # <<>> /\ ~JobEnded /\ peer.pc = "working") =>
            (job.dir # peer.dir /\ job.dir \in fs /\ peer.dir \in fs))
    /\ [](job.error = "FileExistsError" =>
            (job.dir = <<>> /\ job.files = {} /\ job.pc \in {"except", "failed"}))
    /\ [][job' # job => (/\ peer' = peer
                         /\ fs \ {job.dir} \subseteq fs'
                         /\ fs' \ {job'.dir} \subseteq fs)]_vars
    /\ [][peer' # peer => (/\ job' = job
                           /\ fs \ {peer.dir} \subseteq fs'
                           /\ fs' \ {peer'.dir} \subseteq fs)]_vars
    /\ [][(job'.error = "FileExistsError" /\ job.error # "FileExistsError") =>
             (fs' = fs /\ peer' = peer /\ job'.pc = "except")]_vars

\* C12 witness: the job's allocation met the directory of the other chat's
\* job at work, the only directory there is, and failed.
C12_Witness ==
    /\ job.error = "FileExistsError"
    /\ job.pc = "failed"
    /\ peer.pc = "working"
    /\ fs = {peer.dir}
    /\ peer.dir[1] = job.base_name

(***************************************************************************)
(* Further claims about the whole_set job (checked under SpecJob)          *)
(***************************************************************************)
\* C21: in a whole_set job every bin is zipped and sent on its own: while
\* the bins are being archived the archives delivered so far are those of
\* the bins before the current one, each holding exactly the files of its
\* bin, and only the zip being sent is on disk; a done job has delivered as
\* many archives as the split made bins, no entry is in two of them, and no
\* zip is left.
C21_OneArchivePerBin ==
    job.download_type = "whole_set" =>
        /\ job.pc \in {"zip", "send"} =>
              /\ Cardinality(Archives) = job.bin
              /\ \A b \in 0..(job.bin - 1) :
                    /\ job.sent[b + 2].kind = "archive"
                    /\ job.sent[b + 2].entries =
                          {[i |-> f.i, k |-> f.k] :
                             f \in {g \in job.files :
                                      g.d = "split" /\ g.b = b /\ g.k # "dir/"}}
              /\ \A f \in job.files :
                    f.k = "zip" => (job.pc = "send" /\ f.b = job.bin)
        /\ job.pc = "done" =>
              /\ Cardinality(Archives) = job.nbins
              /\ Len(job.sent) = job.nbins + 1
              /\ \A m, n \in Archives :
                    m # n => job.sent[m].entries \cap job.sent[n].entries = {}
              /\ \A f \in job.files : f.k # "zip"

\* C21 witness: a done whole_set job of two bins, each with files, and two
\* archives.
C21_Witness ==
    /\ job.download_type = "whole_set"
    /\ job.pc = "done"
    /\ job.nbins = 2
    /\ Cardinality(Archives) = 2
    /\ \A m \in Archives : job.sent[m].entries # {}

\* C22: the entries of the archives a done whole_set job delivered are the
\* converted files (of the format, or the four of all) of the stickers that
\* were fetched and converted, and nothing else.
C22_OnlyConvertedOutputs ==
    (job.download_type = "whole_set" /\ job.pc = "done") =>
        Delivered = {[i |-> i, k |-> ConvKinds(job.format)[q]] :
                       i \in ItemsThat("ok"), q \in DOMAIN ConvKinds(job.format)}

\* C23: the split of a whole_set job makes at least one bin, and a bin is
\* empty only if it is bin 0 and there was no file or the first file listed
\* is larger than the ceiling; a done job has delivered at least one archive,
\* and when no sticker was converted an archive without entries.
C23_AtLeastOneArchive ==
    job.download_type = "whole_set" =>
        /\ job.pc \in {"zip", "send", "done"} => job.nbins >= 1
        /\ job.pc \in {"zip", "send"} =>
              \A b \in 0..(job.nbins - 1) :
                  BinFiles(job.files, b) = {} =>
                      (b = 0 /\ (job.sizes = <<>> \/ job.sizes[1] > MaxSizeMb))
        /\ job.pc = "done" =>
              /\ Cardinality(Archives) >= 1
              /\ ItemsThat("ok") = {} => \E m \in Archives : job.sent[m].entries = {}

(***************************************************************************)
(* Termination (checked under SpecLive)                                    *)
(***************************************************************************)
\* C24: a handle_download that has started ends, with its documents sent or
\* its failure text sent, whatever fails on the way; no retry_async call of
\* it invokes its operation more than five times; the stickers of a set are
\* taken one after another in the order of the set, each converted at most
\* once: the conversion step of a sticker is followed by a later sticker's
\* fetch or by the split, never by a fetch or a conversion of the same or an
\* earlier sticker.
C24_Terminates ==
    /\ (job.pc = "announce") ~> JobEnded
    /\ [](JobBusy => (rt.calls <= DefaultRetries /\ rt.fails <= DefaultRetries))
    /\ [][(job.pc \in {"get_file", "download", "convert"} /\ job'.pc # "idle") =>
             job'.index >= job.index]_job
    /\ [][(job.pc = "convert" /\ job.download_type = "whole_set") =>
             (/\ job'.pc \in {"get_file", "split"}
              /\ job'.index > job.index
              /\ \A i \in (job.index + 1)..(job'.index - 1) : ~job.stickers[i])]_job
    /\ [][(job.pc = "convert" /\ job.download_type = "just_one") =>
             job'.pc \in {"send", "done", "except"}]_job

\* C24 witness: a whole_set job of two stickers has ended after the first
\* sticker's fetch failed five times and the second was converted.
C24_Witness ==
    /\ job.pc = "done"
    /\ job.download_type = "whole_set"
    /\ job.items = <<"fetch_failed", "ok">>
    /\ job.nbins >= 1
    /\ Cardinality(Archives) = job.nbins

====
